---- MODULE Spec2Model ----
(***************************************************************************)
(* Memory subsystem of the KING gateway (src/king/gateway/memory).         *)
(*                                                                         *)
(*   Spec        one MemoryResolver.resolve call, step by step             *)
(*   SpecEntity  concurrent EntityResolver.resolve calls on one store      *)
(*   SpecCurator create_search_plan as a function of the curator response  *)
(*   SpecEntityFlaky  the same calls on a table that may be unreachable    *)
(*   SpecRepeated    resolve calls one after the other on one resolver      *)
(*   SpecBatch       apply_decay_to_memories and filter_expired_memories    *)
(*   SpecImportance  calculate_importance on one memory as time passes      *)
(*   SpecSeeds       resolve calls for changing agents, and the seed store  *)
(*   SpecPromotion   one check_and_promote call on a store that may fail    *)
(*                                                                         *)
(* Numbers: an importance is kept in thousandths (0.9 is 900), a decay     *)
(* factor in ten-thousandths (1.0 is 10000), a time in hours.              *)
(* Optional[str] values use the string "None" for None.                    *)
(***************************************************************************)
EXTENDS Integers, Sequences, FiniteSets, TLC

VARIABLES
    pc,               \* position of the resolve call
    args,             \* resolve's arguments: user_id, agent_id, resolve_entity
    env,              \* the resolver's collaborators: mem0 client, entity resolver
    now,              \* wall clock, hours
    heap,             \* Memory objects by reference
    working_memories, \* the caller's working_memories argument: references
    caches,           \* MemoryResolver._collective_cache / _lineage_cache
    locals,           \* resolve's local variables
    result,           \* the MemorySearchResult being built
    trace,            \* calls made to collaborators, in order
    entities,         \* the rows of the "entities" table
    uuids,            \* how many uuid.uuid4() values have been drawn
    ecalls            \* the EntityResolver.resolve calls in progress

vars == <<pc, args, env, now, heap, working_memories, caches, locals, result,
          trace, entities, uuids, ecalls>>

None == "None"

(***************************************************************************)
(* types.py                                                                *)
(***************************************************************************)
MemoryType == {"collective", "lineage", "episodic", "semantic", "working"}

MEMORY_RESOLUTION_ORDER == <<"working", "episodic", "semantic", "lineage", "collective">>

MEMORY_CONFIGS ==
    [t \in MemoryType |->
        CASE t = "collective" -> [scope |-> "kingdom", decays |-> FALSE, default_importance |-> 1000]
          [] t = "lineage"    -> [scope |-> "agent_type", decays |-> FALSE, default_importance |-> 900]
          [] t = "episodic"   -> [scope |-> "user+session", decays |-> TRUE, default_importance |-> 700]
          [] t = "semantic"   -> [scope |-> "user", decays |-> FALSE, default_importance |-> 800]
          [] t = "working"    -> [scope |-> "session", decays |-> TRUE, default_importance |-> 1000]]

\* Memory(content, memory_type, importance, created_at, user_id, agent_id, mem0_id)
Memory(content, memory_type, importance, created_at, user_id, agent_id, mem0_id) ==
    [content |-> content, memory_type |-> memory_type, importance |-> importance,
     created_at |-> created_at, user_id |-> user_id, agent_id |-> agent_id,
     mem0_id |-> mem0_id]

(***************************************************************************)
(* decay.py                                                                *)
(***************************************************************************)
EPISODIC_HALF_LIFE_DAYS == 30

WORKING_MEMORY_TTL_HOURS == 24

\* Fixed-point scale of a decay factor: 1.0
One == 10000

\* e^(-1), e^(-1/30) and e^(-1/720) in ten-thousandths: thirty days, one day and
\* one hour of math.exp(-age_days / 30).
ExpMonthStep == 3679

ExpDayStep == 9672

ExpHourStep == 9986

\* acc times step to the n, rounded after every multiplication.  The n
\* multiplications are done as two runs of about n/2, the first finished before
\* the second starts, which gives the same value as doing them one by one.
RECURSIVE ExpPow(_, _, _)
ExpPow(acc, step, n) ==
    IF n <= 0 THEN acc
    ELSE IF n = 1 THEN (acc * step + One \div 2) \div One
    ELSE CHOOSE out \in { ExpPow(half, step, n - n \div 2) :
                              half \in { ExpPow(acc, step, n \div 2) } } : TRUE

\* math.exp(-age_days / half_life_days) for an age given in hours
ExpNeg(age_hours) ==
    CHOOSE out \in
        { ExpPow(days, ExpHourStep, age_hours % 24) :
            days \in { ExpPow(months, ExpDayStep, (age_hours \div 24) % EPISODIC_HALF_LIFE_DAYS) :
                         months \in { ExpPow(One, ExpMonthStep,
                                             age_hours \div (24 * EPISODIC_HALF_LIFE_DAYS)) } } } :
        TRUE

Max(a, b) == IF a >= b THEN a ELSE b

Min(a, b) == IF a <= b THEN a ELSE b

\* a decay factor without the floor of 0.01
DecayFactorNoFloor(age_hours) ==
    IF age_hours <= 0 THEN One
    ELSE ExpNeg(age_hours)

\* a decay factor that decays with the distance from now, before or after
DecayFactorBothWays(age_hours) ==
    IF age_hours = 0 THEN One
    ELSE Max(One \div 100, ExpNeg(IF age_hours < 0 THEN 0 - age_hours ELSE age_hours))

calculate_decay_factor(age_hours) ==
    IF age_hours <= 0 THEN One
    ELSE Max(One \div 100, ExpNeg(age_hours))

\* calculate_importance with the working-memory cutoff at age >= TTL
ImportanceCutoffAtTtl(memory, current_time) ==
    LET config == MEMORY_CONFIGS[memory.memory_type]
        age_hours == current_time - memory.created_at
    IN  IF ~config.decays THEN memory.importance
        ELSE IF memory.memory_type = "working"
             THEN IF age_hours >= WORKING_MEMORY_TTL_HOURS THEN 0 ELSE memory.importance
        ELSE IF memory.memory_type = "episodic"
             THEN (memory.importance * calculate_decay_factor(age_hours)) \div One
        ELSE memory.importance

\* calculate_importance with the episodic decay applied to every tier but working
ImportanceDecayAllTiers(memory, current_time) ==
    LET age_hours == current_time - memory.created_at
    IN  IF memory.memory_type = "working"
        THEN IF age_hours > WORKING_MEMORY_TTL_HOURS THEN 0 ELSE memory.importance
        ELSE (memory.importance * calculate_decay_factor(age_hours)) \div One

calculate_importance(memory, current_time) ==
    LET config == MEMORY_CONFIGS[memory.memory_type]
        age_hours == current_time - memory.created_at
    IN  IF ~config.decays THEN memory.importance
        ELSE IF memory.memory_type = "working"
             THEN IF age_hours > WORKING_MEMORY_TTL_HOURS THEN 0 ELSE memory.importance
        ELSE IF memory.memory_type = "episodic"
             THEN (memory.importance * calculate_decay_factor(age_hours)) \div One
        ELSE memory.importance

\* (a sort that puts the later of two equal entries first is RankDescTiesReversed)
\* sorted(memories, key=lambda m: m.importance, reverse=True) is stable: the
\* entry at position j comes after every entry of greater importance and after
\* the entries of equal importance that precede it in the input
RankDescTiesReversed(h, refs, j) ==
    1 + Cardinality({ k \in 1..Len(refs) :
                        \/ h[refs[k]].importance > h[refs[j]].importance
                        \/ h[refs[k]].importance = h[refs[j]].importance /\ k > j })

RankDesc(h, refs, j) ==
    1 + Cardinality({ k \in 1..Len(refs) :
                        \/ h[refs[k]].importance > h[refs[j]].importance
                        \/ h[refs[k]].importance = h[refs[j]].importance /\ k < j })

SortedDesc(h, refs) ==
    [p \in 1..Len(refs) |-> refs[CHOOSE j \in 1..Len(refs) : RankDesc(h, refs, j) = p]]

\* memory.importance = calculate_importance(memory, current_time), k times over
RECURSIVE Decayed(_, _, _)
Decayed(memory, current_time, k) ==
    IF k = 0 THEN memory
    ELSE [Decayed(memory, current_time, k - 1) EXCEPT
            !.importance = calculate_importance(Decayed(memory, current_time, k - 1),
                                                current_time)]

\* the loop of apply_decay_to_memories: each object's importance is assigned in
\* place, once per occurrence of the object in the list
DecayInPlace(h, refs, current_time) ==
    [r \in 1..Len(h) |->
        Decayed(h[r], current_time, Cardinality({ j \in 1..Len(refs) : refs[j] = r }))]

\* apply_decay_to_memories: the heap after the in-place update, and the sorted list
apply_decay_to_memories(h, refs, current_time) ==
    CHOOSE out \in { [heap |-> h2, list |-> SortedDesc(h2, refs)] :
                        h2 \in {DecayInPlace(h, refs, current_time)} } : TRUE

\* min_importance default of filter_expired_memories: 0.1
DEFAULT_MIN_IMPORTANCE == 100

\* a filter that also drops the memories exactly at the threshold
FilterAboveOnly(h, refs, min_importance) ==
    SelectSeq(refs, LAMBDA r : h[r].importance > min_importance)

filter_expired_memories(h, refs, min_importance) ==
    SelectSeq(refs, LAMBDA r : h[r].importance >= min_importance)

\* Python's seq[:n] for an integer n
SliceTo(seq, n) ==
    IF n >= 0 THEN SubSeq(seq, 1, Min(n, Len(seq)))
    ELSE SubSeq(seq, 1, Max(0, Len(seq) + n))

(***************************************************************************)
(* seeding.py                                                              *)
(***************************************************************************)
COLLECTIVE_MEMORIES ==
    <<"kingdom-01", "kingdom-02", "kingdom-03", "kingdom-04", "kingdom-05",
      "kingdom-06", "kingdom-07", "kingdom-08", "kingdom-09", "kingdom-10">>

LINEAGE_AGENTS ==
    {"code_writer", "code_reviewer", "video_planner", "script_writer", "memory_selector"}

LINEAGE_MEMORIES ==
    [a \in LINEAGE_AGENTS |->
        CASE a = "code_writer"     -> <<"cw-1", "cw-2", "cw-3", "cw-4", "cw-5">>
          [] a = "code_reviewer"   -> <<"cr-1", "cr-2", "cr-3", "cr-4", "cr-5">>
          [] a = "video_planner"   -> <<"vp-1", "vp-2", "vp-3", "vp-4", "vp-5">>
          [] a = "script_writer"   -> <<"sw-1", "sw-2", "sw-3", "sw-4", "sw-5">>
          [] a = "memory_selector" -> <<"ms-1", "ms-2", "ms-3", "ms-4">>]

\* the Memory objects get_collective_memories() builds, created at time t
get_collective_memories(t) ==
    [i \in 1..Len(COLLECTIVE_MEMORIES) |->
        Memory(COLLECTIVE_MEMORIES[i], "collective", 1000, t, None, None, None)]

\* the Memory objects get_lineage_memories(agent_id) builds, created at time t
get_lineage_memories(agent_id, t) ==
    LET agent_memories == IF agent_id \in LINEAGE_AGENTS THEN LINEAGE_MEMORIES[agent_id] ELSE <<>>
    IN  [i \in 1..Len(agent_memories) |->
            Memory(agent_memories[i], "lineage", 900, t, None, agent_id, None)]

\* references of the objects appended to a heap of length n
NewRefs(n, k) == [i \in 1..k |-> n + i]

(***************************************************************************)
(* entity_resolver.py                                                      *)
(*                                                                         *)
(* The "entities" table is a sequence of rows in insertion order.  A call  *)
(* is a record: pc (the statement it is about to run), handle (the         *)
(* stripped raw_handle), ret (what it returned), and what happened to it.  *)
(***************************************************************************)
\* raw_handle.strip(), over the handles used here
Strip(raw) ==
    CASE raw = " bob "   -> "bob"
      [] raw = " alice " -> "alice"
      [] OTHER           -> raw

\* ids the table gives to its rows, and the values of uuid.uuid4()
RowIds == <<"ent-1", "ent-2", "ent-3", "ent-4", "ent-5", "ent-6">>

Uuids == <<"tmp-1", "tmp-2", "tmp-3", "tmp-4", "tmp-5", "tmp-6">>

NoEntity == [id |-> None, canonical_name |-> None, aliases |-> {}, type |-> None]

\* .select("*").eq("canonical_name", raw_handle)
SelectByCanonicalName(rows, h) == SelectSeq(rows, LAMBDA r : r.canonical_name = h)

\* .select("*").contains("aliases", [raw_handle])
SelectByAlias(rows, h) == SelectSeq(rows, LAMBDA r : h \in r.aliases)

\* .insert(new_entity): the row as stored, with the id the table gives it
InsertedRow(rows, new_entity) ==
    [id |-> RowIds[Len(rows) + 1], canonical_name |-> new_entity.canonical_name,
     aliases |-> new_entity.aliases, type |-> new_entity.type]

\* whether .insert(new_entity) is refused: canonical_name is unique in the table
InsertConflicts(rows, new_entity) ==
    SelectByCanonicalName(rows, new_entity.canonical_name) # <<>>

NewCall(raw_handle) ==
    [pc |-> "canonical", handle |-> Strip(raw_handle), ret |-> NoEntity,
     conflict |-> FALSE, inserted |-> FALSE, refetches |-> 0, refetch_failed |-> FALSE,
     ops |-> 0, fails |-> 0]

IdleCall ==
    [pc |-> "idle", handle |-> None, ret |-> NoEntity,
     conflict |-> FALSE, inserted |-> FALSE, refetches |-> 0, refetch_failed |-> FALSE,
     ops |-> 0, fails |-> 0]

Returned(c, entity) == [c EXCEPT !.pc = "done", !.ret = entity]

\* 1. Search by canonical name (a failure is logged and the call goes on)
SearchCanonical(c, rows, fail) ==
    LET data == SelectByCanonicalName(rows, c.handle)
    IN  IF ~fail /\ data # <<>> THEN Returned(c, data[1])
        ELSE [c EXCEPT !.pc = "alias"]

\* 2. Search by alias containment
SearchAlias(c, rows, fail) ==
    LET data == SelectByAlias(rows, c.handle)
    IN  IF ~fail /\ data # <<>> THEN Returned(c, data[1])
        ELSE [c EXCEPT !.pc = "insert"]

NewEntity(h) == [canonical_name |-> h, aliases |-> {h}, type |-> "System"]

\* 3. Create new entity: the call after the insert
InsertCall(c, rows, fail) ==
    IF fail THEN [c EXCEPT !.pc = "refetch"]
    ELSE IF InsertConflicts(rows, NewEntity(c.handle))
         THEN [c EXCEPT !.pc = "refetch", !.conflict = TRUE]
         ELSE [Returned(c, InsertedRow(rows, NewEntity(c.handle))) EXCEPT !.inserted = TRUE]

\* 3. Create new entity: the table after the insert
InsertRows(c, rows, fail) ==
    IF fail \/ InsertConflicts(rows, NewEntity(c.handle)) THEN rows
    ELSE Append(rows, InsertedRow(rows, NewEntity(c.handle)))

\* a temporary dict that is not marked: it carries the type of a created entity
UnresolvedUnmarked(h, uuid) == [id |-> uuid, canonical_name |-> h, aliases |-> {}, type |-> "System"]

\* the temporary dict returned when all else fails; it has no aliases key
Unresolved(h, uuid) == [id |-> uuid, canonical_name |-> h, aliases |-> {}, type |-> "Unresolved"]

\* a resolve without the retry fetch: a refused insert goes straight to the
\* temporary dict
RetryFetchSkipped(c, rows, fail, uuid) ==
    Returned(c, Unresolved(c.handle, uuid))

\* the except branch of the insert: fetch by canonical name again, once
RetryFetch(c, rows, fail, uuid) ==
    LET data == SelectByCanonicalName(rows, c.handle)
        c2 == [c EXCEPT !.refetches = @ + 1, !.refetch_failed = fail]
    IN  IF ~fail /\ data # <<>> THEN Returned(c2, data[1])
        ELSE Returned(c2, Unresolved(c.handle, uuid))

\* one statement of EntityResolver.resolve; ops and fails count the calls made to
\* the table and those of them that failed because the table was unreachable
CallStep(c, rows, fail, uuid) ==
    LET d == [c EXCEPT !.ops = @ + 1, !.fails = @ + (IF fail THEN 1 ELSE 0)]
    IN  CASE c.pc = "canonical" -> SearchCanonical(d, rows, fail)
          [] c.pc = "alias"     -> SearchAlias(d, rows, fail)
          [] c.pc = "insert"    -> InsertCall(d, rows, fail)
          [] c.pc = "refetch"   -> RetryFetch(d, rows, fail, uuid)
          [] OTHER              -> c

RowsStep(c, rows, fail) ==
    IF c.pc = "insert" THEN InsertRows(c, rows, fail) ELSE rows

\* EntityResolver.resolve run to its return with no other call in between;
\* fails[i] says whether the i-th call to the table fails
RECURSIVE RunCall(_, _, _, _)
RunCall(c, rows, fails, uuid) ==
    IF c.pc = "done" \/ fails = <<>> THEN [call |-> c, rows |-> rows]
    ELSE CHOOSE out \in { RunCall(c2, rows2, Tail(fails), uuid) :
                             c2 \in {CallStep(c, rows, Head(fails), uuid)},
                             rows2 \in {RowsStep(c, rows, Head(fails))} } : TRUE

(***************************************************************************)
(* curator.py                                                              *)
(*                                                                         *)
(* A plan is what json.loads returned.  kind says whether it is a JSON     *)
(* object; each field carries a tag: "missing" (no such key), "null", or   *)
(* the JSON type of its value.  An entry of tiers is a JSON string         *)
(* (str = TRUE) or some other JSON value.                                  *)
(***************************************************************************)
Str(v) == [str |-> TRUE, v |-> v]

NonStr(v) == [str |-> FALSE, v |-> v]

Plan(tiers, filters, limit_per_tier, early_stop, reasoning) ==
    [kind |-> "dict", tiers |-> tiers, filters |-> filters,
     limit_per_tier |-> limit_per_tier, early_stop |-> early_stop,
     reasoning |-> reasoning]

TiersList(entries) == [tag |-> "list", val |-> entries]

FiltersDict(user_id, keywords) == [tag |-> "dict", user_id |-> user_id, keywords |-> keywords]

IntVal(n) == [tag |-> "int", val |-> n]

BoolVal(b) == [tag |-> "bool", val |-> b]

Missing == [tag |-> "missing", val |-> 0]

MissingBool == [tag |-> "missing", val |-> FALSE]

MissingTiers == [tag |-> "missing", val |-> <<>>]

MissingFilters == [tag |-> "missing", user_id |-> None, keywords |-> <<>>]

\* a fallback plan with limit_per_tier 10 instead of 5
FallbackLimit10(user_id) ==
    Plan(TiersList(<<Str("working"), Str("episodic"), Str("semantic"), Str("lineage"),
                     Str("collective")>>),
         FiltersDict(user_id, <<>>), IntVal(10), BoolVal(FALSE),
         "fallback - curator unavailable")

_get_fallback_plan(user_id) ==
    Plan(TiersList(<<Str("working"), Str("episodic"), Str("semantic"), Str("lineage"),
                     Str("collective")>>),
         FiltersDict(user_id, <<>>), IntVal(5), BoolVal(FALSE),
         "fallback - curator unavailable")

\* A curator response: it raised, or response.text as a sequence of pieces, each
\* the opening fence (three backquotes and json), the closing fence (three
\* backquotes), one JSON value, or text that is not JSON.
FenceJson == [piece |-> "fence_json", value |-> NonStr("")]

Fence == [piece |-> "fence", value |-> NonStr("")]

Json(plan) == [piece |-> "json", value |-> plan]

NotJson == [piece |-> "text", value |-> NonStr("")]

\* text[7:] when text starts with the opening fence
StripPrefix(text) ==
    IF text # <<>> /\ Head(text).piece = "fence_json" THEN Tail(text) ELSE text

\* text[:-3] when text ends with three backquotes
StripSuffix(text) ==
    IF text # <<>> /\ text[Len(text)].piece = "fence" THEN SubSeq(text, 1, Len(text) - 1)
    ELSE text

\* json.loads: exactly one JSON value parses, anything else raises
JsonLoads(text) ==
    IF Len(text) = 1 /\ text[1].piece = "json"
    THEN [raised |-> FALSE, value |-> text[1].value]
    ELSE [raised |-> TRUE, value |-> NonStr("")]

\* create_search_plan(query, user_id, agent_name, session_context), given whether a
\* curator model is configured and what its one call does
create_search_plan(user_id, configured, response) ==
    IF ~configured THEN _get_fallback_plan(user_id)
    ELSE IF response.raised THEN _get_fallback_plan(user_id)
    ELSE LET parsed == JsonLoads(StripSuffix(StripPrefix(response.text)))
         IN  IF parsed.raised THEN _get_fallback_plan(user_id) ELSE parsed.value

\* calls of curator_model.generate_content made by create_search_plan
CuratorCalls(configured) == IF configured THEN 1 ELSE 0

(***************************************************************************)
(* resolver.py                                                             *)
(***************************************************************************)
\* tier_name.lower(), over the tier names used here
Lower(name) ==
    CASE name = "EPISODIC" -> "episodic"
      [] name = "Working"  -> "working"
      [] OTHER             -> name

\* truth value of an Optional[str]
Truthy(s) == s # None /\ s # ""

\* a slice that keeps one entry more than an int limit allows
SliceLimitPlusOne(seq, limit) ==
    IF limit.tag = "int" THEN SliceTo(seq, limit.val + 1) ELSE seq

\* seq[:limit] for limit_per_tier as the plan gave it: None keeps the whole list
SliceLimit(seq, limit) == IF limit.tag = "int" THEN SliceTo(seq, limit.val) ELSE seq

\* seq[:limit] raises TypeError when limit is a string
SliceRaises(limit) == limit.tag = "str"

\* limit * 2: doubles an int, repeats a one-digit string, raises on None
Twice(limit) ==
    IF limit.tag = "int" THEN [tag |-> "int", val |-> limit.val * 2]
    ELSE [tag |-> limit.tag, val |-> limit.val * 11]

TwiceRaises(limit) == limit.tag = "null"

\* a _get_collective that hands out the cached list without its first entry
GetCollectiveLosesFirst(cch, h, t) ==
    IF cch.collective.set
    THEN [caches |-> cch, heap |-> h, refs |-> Tail(cch.collective.refs)]
    ELSE LET made == get_collective_memories(t)
             refs == NewRefs(Len(h), Len(made))
         IN  [caches |-> [cch EXCEPT !.collective = [set |-> TRUE, refs |-> refs]],
              heap |-> h \o made, refs |-> refs]

\* MemoryResolver._get_collective
_get_collective(cch, h, t) ==
    IF cch.collective.set THEN [caches |-> cch, heap |-> h, refs |-> cch.collective.refs]
    ELSE LET made == get_collective_memories(t)
             refs == NewRefs(Len(h), Len(made))
         IN  [caches |-> [cch EXCEPT !.collective = [set |-> TRUE, refs |-> refs]],
              heap |-> h \o made, refs |-> refs]

\* a _get_lineage whose cache is not keyed: whatever list was cached first is
\* handed out for every agent
GetLineageUnkeyed(cch, h, t, agent_id) ==
    IF DOMAIN cch.lineage # {}
    THEN [caches |-> cch, heap |-> h,
          refs |-> cch.lineage[CHOOSE a \in DOMAIN cch.lineage : TRUE]]
    ELSE LET made == get_lineage_memories(agent_id, t)
             refs == NewRefs(Len(h), Len(made))
         IN  [caches |-> [cch EXCEPT !.lineage = (agent_id :> refs) @@ @],
              heap |-> h \o made, refs |-> refs]

\* MemoryResolver._get_lineage
_get_lineage(cch, h, t, agent_id) ==
    IF agent_id \in DOMAIN cch.lineage
    THEN [caches |-> cch, heap |-> h, refs |-> cch.lineage[agent_id]]
    ELSE LET made == get_lineage_memories(agent_id, t)
             refs == NewRefs(Len(h), Len(made))
         IN  [caches |-> [cch EXCEPT !.lineage = (agent_id :> refs) @@ @],
              heap |-> h \o made, refs |-> refs]

\* mem0_client.search(query, user_id, limit): the hits stored for user_id, at
\* most limit of them
Mem0Search(store, user_id, limit) ==
    LET hits == IF user_id \in DOMAIN store THEN store[user_id] ELSE <<>>
    IN  IF limit.tag = "int" THEN SliceTo(hits, limit.val) ELSE hits

\* a resolve that trusts the user id the plan proposes
TierUserIdFromPlan(loc) ==
    IF loc.plan.filters.tag = "dict" /\ Truthy(loc.plan.filters.user_id)
    THEN loc.plan.filters.user_id
    ELSE loc.canonical_user_id

\* the user_id argument resolve passes to _search_tier
TierUserId(loc) == loc.canonical_user_id

\* MemoryResolver._search_mem0; fail says whether the search call raises.
\* Returns the list, the heap with the Memory objects built, and the calls made
\* to the client (each with the tier it was made for and what it returned).
_search_mem0(query, user_id, agent_id, mem_type, limit, e, fail, h, t) ==
    LET none == [refs |-> <<>>, heap |-> h, calls |-> <<>>]
        results == Mem0Search(e.mem0_store, user_id, Twice(limit))
        call == [query |-> query, user_id |-> user_id, limit |-> Twice(limit),
                 mem_type |-> mem_type, raised |-> fail,
                 results |-> IF fail THEN <<>> ELSE results]
        made == [i \in 1..Len(results) |->
                    Memory(results[i].memory, mem_type, results[i].score, t,
                           user_id, agent_id, results[i].id)]
        memories == NewRefs(Len(h), Len(made))
    IN  IF ~e.mem0_client \/ ~Truthy(user_id) THEN none
        ELSE IF TwiceRaises(limit) THEN none
        ELSE IF fail \/ SliceRaises(limit) THEN [none EXCEPT !.calls = <<call>>]
        ELSE [refs |-> SliceLimit(memories, limit), heap |-> h \o made, calls |-> <<call>>]

\* MemoryResolver._search_tier
_search_tier(mem_type, query, user_id, agent_id, wm, limit, e, fail, cch, h, t) ==
    LET base == [raised |-> FALSE, refs |-> <<>>, heap |-> h, caches |-> cch, calls |-> <<>>]
    IN  CASE mem_type = "working" ->
                IF SliceRaises(limit) THEN [base EXCEPT !.raised = TRUE]
                ELSE [base EXCEPT !.refs = SliceLimit(IF wm.given THEN wm.refs ELSE <<>>, limit)]
          [] mem_type = "collective" ->
                LET g == _get_collective(cch, h, t)
                IN  [base EXCEPT !.raised = SliceRaises(limit),
                                 !.refs = IF SliceRaises(limit) THEN <<>> ELSE SliceLimit(g.refs, limit),
                                 !.heap = g.heap, !.caches = g.caches]
          [] mem_type = "lineage" ->
                IF Truthy(agent_id)
                THEN LET g == _get_lineage(cch, h, t, agent_id)
                     IN  [base EXCEPT !.raised = SliceRaises(limit),
                                      !.refs = IF SliceRaises(limit) THEN <<>> ELSE SliceLimit(g.refs, limit),
                                      !.heap = g.heap, !.caches = g.caches]
                ELSE base
          [] OTHER ->
                LET m == _search_mem0(query, user_id, agent_id, mem_type, limit, e, fail, h, t)
                IN  [base EXCEPT !.refs = m.refs, !.heap = m.heap, !.calls = m.calls]

\* limit_per_tier = plan.get("limit_per_tier", 5)
PlanLimit(plan) ==
    IF plan.limit_per_tier.tag = "missing" THEN IntVal(5) ELSE plan.limit_per_tier

\* filters = plan.get("filters", {}); filters["user_id"] = canonical_user_id
EnforceUserId(plan, canonical_user_id) ==
    IF plan.filters.tag = "missing" THEN FiltersDict(canonical_user_id, <<>>)
    ELSE [plan.filters EXCEPT !.user_id = canonical_user_id]

\* search_query: the query followed by the plan's keywords, when it has any
SearchQuery(query, filters) ==
    IF filters.keywords # <<>> THEN query \o filters.keywords ELSE query

\* plan.get("tiers", [])
PlanTiers(plan) == IF plan.tiers.tag = "missing" THEN <<>> ELSE plan.tiers.val

\* what lines 65-81 raise on: plan.get on a value that is no dict, item assignment
\* on filters = None, iteration over tiers = None
ReadError(plan) ==
    IF plan.kind # "dict" THEN "AttributeError"
    ELSE IF plan.filters.tag = "null" \/ plan.tiers.tag = "null" THEN "TypeError"
    ELSE "none"

\* truth value of plan.get("early_stop")
EarlyStop(plan) == plan.early_stop.tag = "bool" /\ plan.early_stop.val

\* the early-stop threshold fixed at ten memories
EarlyStopAtTen(total_count, limit) == total_count >= 10

\* result.total_count >= limit_per_tier * 2, for an integer limit
EarlyStopReached(total_count, limit) == total_count >= limit.val * 2

\* One pass of the loop body of resolve (lines 89-109) for a valid tier:
\* _search_tier, decay, filter, truncation, the result update and the early-stop
\* test.  raised: an exception leaves resolve, from the place named by at.
\* s is what _search_tier returned, d what apply_decay_to_memories made of it.
TierOutcome(mem_type, loc, res, s, d) ==
    LET limit == loc.limit_per_tier
        kept == SliceLimit(filter_expired_memories(d.heap, d.list, DEFAULT_MIN_IMPORTANCE), limit)
        total == IF s.refs # <<>> THEN res.total_count + Len(kept) ELSE res.total_count
        early == EarlyStop(loc.plan)
    IN  IF s.raised
        THEN [raised |-> TRUE, at |-> "source", stop |-> FALSE, heap |-> s.heap,
              caches |-> s.caches, result |-> res, calls |-> s.calls]
        ELSE [raised |-> early /\ limit.tag # "int", at |-> "early_stop",
              stop |-> early /\ limit.tag = "int" /\ EarlyStopReached(total, limit),
              heap |-> IF s.refs # <<>> THEN d.heap ELSE s.heap,
              caches |-> s.caches,
              result |-> IF s.refs # <<>>
                         THEN [memories |-> [res.memories EXCEPT ![mem_type] = kept],
                               present |-> res.present \cup {mem_type},
                               total_count |-> total]
                         ELSE res,
              calls |-> s.calls]

TierPass(mem_type, loc, res, a, wm, e, fail, cch, h, t) ==
    CHOOSE out \in
        { TierOutcome(mem_type, loc, res, s[1], s[2]) :
            s \in { <<st, apply_decay_to_memories(st.heap, st.refs, t)>> :
                      st \in { _search_tier(mem_type, loc.search_query, TierUserId(loc),
                                            a.agent_id, wm, loc.limit_per_tier, e, fail,
                                            cch, h, t) } } } : TRUE

(***************************************************************************)
(* Inputs                                                                  *)
(***************************************************************************)
\* concurrent EntityResolver.resolve calls
NumCalls == 2

\* the clock when resolve is called, hours
StartTime == 48

Query == <<"what did we decide">>

\* what the durable store holds: per user id its hits, best score first; age_days
\* is the age of the stored record.  A score is whatever the store computed: it
\* may lie above 1.0 or below 0.0
Hit(id, score, age_days) == [id |-> id, memory |-> id, score |-> score, age_days |-> age_days]

Mem0Store ==
    ("alice" :> <<Hit("m-1", 900, 1), Hit("m-2", 800, 10), Hit("m-3", 300, 40)>>)
    @@ ("ent-1" :> <<Hit("n-0", 1200, 1), Hit("n-1", 600, 2), Hit("n-2", 50, 3),
                     Hit("n-3", -100, 3)>>)
    @@ ("victim" :> <<Hit("v-1", 950, 1)>>)

Mem0Envs ==
    { [mem0_client |-> FALSE, mem0_store |-> Mem0Store],
      [mem0_client |-> TRUE, mem0_store |-> Mem0Store] }

\* the caller's working memories: none, or three Memory objects
WorkingSets ==
    { <<>>,
      << Memory("w-1", "working", 1000, StartTime, "alice", None, None),
         Memory("w-2", "working", 800, StartTime - 25, "alice", None, None),
         Memory("w-3", "working", 50, StartTime, "alice", None, None) >>,
      << Memory("w-4", "working", 700, StartTime - 1, "alice", None, None),
         Memory("w-5", "working", 900, StartTime - 24, "alice", None, None),
         Memory("w-6", "working", 900, StartTime, "alice", None, None) >> }

\* the entities table before the call
EntityTables ==
    { <<>>,
      << [id |-> "ent-1", canonical_name |-> "alice", aliases |-> {"alice"}, type |-> "Human"] >>,
      << [id |-> "ent-1", canonical_name |-> "Alice Smith", aliases |-> {"alice", "bob"},
          type |-> "Human"] >> }

\* plans a curator can answer with
TierLists ==
    { <<Str("working"), Str("episodic"), Str("semantic"), Str("lineage"), Str("collective")>>,
      <<Str("semantic"), Str("procedural"), Str("collective"), Str("lineage")>>,
      <<Str("collective"), Str("working")>>,
      <<Str("episodic")>>,
      <<Str("lineage"), Str("procedural"), Str("EPISODIC"), Str("Working")>>,
      <<Str("working"), Str("working"), Str("episodic")>> }

AllTiers == <<Str("working"), Str("episodic"), Str("semantic"), Str("lineage"), Str("collective")>>

WellFormedPlans ==
    { Plan(TiersList(ts), FiltersDict("victim", <<"budget">>), IntVal(n), BoolVal(b), "ok") :
        ts \in TierLists, n \in {1, 2}, b \in BOOLEAN }
    \cup
    { Plan(TiersList(AllTiers), FiltersDict(None, <<>>), IntVal(5), BoolVal(b), "ok") :
        b \in BOOLEAN }

MalformedPlans ==
    { \* a JSON value that is no object
      [Plan(TiersList(AllTiers), FiltersDict("victim", <<>>), IntVal(5), BoolVal(FALSE), "list")
          EXCEPT !.kind = "list"],
      \* missing fields
      Plan(MissingTiers, FiltersDict("victim", <<>>), IntVal(5), BoolVal(FALSE), "no tiers"),
      Plan(TiersList(AllTiers), MissingFilters, IntVal(2), BoolVal(TRUE), "no filters"),
      Plan(TiersList(<<Str("episodic"), Str("working")>>), FiltersDict("victim", <<>>),
           Missing, BoolVal(FALSE), "no limit"),
      Plan(TiersList(<<Str("working"), Str("episodic")>>), FiltersDict("victim", <<>>),
           IntVal(1), MissingBool, "no early_stop"),
      \* fields of the wrong type
      Plan([tag |-> "null", val |-> <<>>], FiltersDict("victim", <<>>), IntVal(5),
           BoolVal(FALSE), "tiers null"),
      Plan(TiersList(<<Str("working"), NonStr("7"), Str("episodic")>>),
           FiltersDict("victim", <<>>), IntVal(5), BoolVal(FALSE), "tier 7"),
      Plan(TiersList(AllTiers), [tag |-> "null", user_id |-> None, keywords |-> <<>>],
           IntVal(5), BoolVal(FALSE), "filters null"),
      Plan(TiersList(<<Str("episodic"), Str("lineage"), Str("working"), Str("collective")>>),
           FiltersDict("victim", <<>>), [tag |-> "str", val |-> 5], BoolVal(FALSE), "limit '5'"),
      Plan(TiersList(<<Str("episodic"), Str("working")>>), FiltersDict("victim", <<>>),
           [tag |-> "null", val |-> 0], BoolVal(TRUE), "limit null") }

CuratorPlans == WellFormedPlans \cup MalformedPlans

\* what the one call of curator_model.generate_content does
CuratorResponses ==
    { [raised |-> TRUE, text |-> <<>>] }
    \cup { [raised |-> FALSE, text |-> <<Json(p)>>] : p \in CuratorPlans }
    \cup { [raised |-> FALSE, text |-> <<FenceJson, Json(p), Fence>>] : p \in WellFormedPlans }
    \cup { [raised |-> FALSE, text |-> txt] :
             txt \in { <<NotJson>>, <<>>, <<Fence, Json(_get_fallback_plan("victim")), Fence>>,
                       <<Json(_get_fallback_plan("victim")), NotJson>> } }

UnsetPlan ==
    [Plan(MissingTiers, MissingFilters, Missing, MissingBool, "") EXCEPT !.kind = "unset"]

NoLocals ==
    [canonical_user_id |-> None, plan |-> UnsetPlan, limit_per_tier |-> Missing,
     filters |-> MissingFilters, search_query |-> <<>>, tiers |-> <<>>, idx |-> 0,
     stopped |-> FALSE, error |-> "none", error_at |-> "none", entity |-> IdleCall]

EmptyResult ==
    [memories |-> [t \in MemoryType |-> <<>>], present |-> {}, total_count |-> 0]

NoCaches == [collective |-> [set |-> FALSE, refs |-> <<>>], lineage |-> <<>>]

\* curator_calls: calls of the curator model; searches: calls of the mem0 client;
\* fetched: the tiers _search_tier was called for, each with total_count after its
\* pass; dropped: the positions of the plan's entries skipped as invalid;
\* returned: the results of the earlier resolve calls on this resolver, each as it
\* was when it was returned; direct: what the last direct call of a seeding
\* function returned
NoDirect == [kind |-> "none", agent_id |-> None, list |-> <<>>]

NoTrace ==
    [curator_calls |-> 0, searches |-> <<>>, fetched |-> <<>>, dropped |-> <<>>,
     returned |-> <<>>, direct |-> NoDirect]

(***************************************************************************)
(* Spec: one call of MemoryResolver.resolve                                *)
(***************************************************************************)
Init ==
    /\ pc = "start"
    /\ now = StartTime
    /\ \E user_id \in {"alice", None}, agent_id \in {"code_writer", None},
          re \in { <<FALSE, TRUE>>, <<TRUE, FALSE>>, <<TRUE, TRUE>> } :
          /\ args = [query |-> Query, user_id |-> user_id, agent_id |-> agent_id,
                     resolve_entity |-> re[1]]
          /\ \E m \in Mem0Envs, curator \in BOOLEAN :
                env = [mem0_client |-> m.mem0_client, mem0_store |-> m.mem0_store,
                       entity_resolver |-> re[2], curator_model |-> curator,
                       entity_store |-> "flaky"]
          /\ entities \in (IF re[1] /\ re[2] THEN EntityTables ELSE {<<>>})
    /\ heap \in WorkingSets
    /\ working_memories = NewRefs(0, Len(heap))
    /\ caches = NoCaches
    /\ locals = NoLocals
    /\ result = EmptyResult
    /\ trace = NoTrace
    /\ uuids = 0
    /\ ecalls = [p \in 1..NumCalls |-> IdleCall]

\* which calls to the table may fail: none while it is reachable, any otherwise,
\* all when it is down
FailureChoices(store) ==
    CASE store = "up"   -> {FALSE}
      [] store = "down" -> {TRUE}
      [] OTHER          -> BOOLEAN

\* lines 47-55 with entity resolution: EntityResolver.resolve(user_id) runs to its
\* return; it returns a dict with an "id" on every path
ResolveEntity ==
    /\ pc = "start"
    /\ args.resolve_entity /\ Truthy(args.user_id) /\ env.entity_resolver
    /\ \E f1, f2, f3, f4 \in FailureChoices(env.entity_store) :
          \E r \in { RunCall(NewCall(args.user_id), entities, <<f1, f2, f3, f4>>,
                             Uuids[uuids + 1]) } :
              /\ locals' = [locals EXCEPT !.canonical_user_id = r.call.ret.id,
                                          !.entity = r.call]
              /\ entities' = r.rows
              /\ uuids' = IF r.call.ret.type = "Unresolved" THEN uuids + 1 ELSE uuids
    /\ pc' = "plan"
    /\ UNCHANGED <<args, env, now, heap, working_memories, caches, result, trace, ecalls>>

\* lines 47-48 when no entity resolution is asked for or possible
SkipEntity ==
    /\ pc = "start"
    /\ ~(args.resolve_entity /\ Truthy(args.user_id) /\ env.entity_resolver)
    /\ locals' = [locals EXCEPT !.canonical_user_id = args.user_id]
    /\ pc' = "plan"
    /\ UNCHANGED <<args, env, now, heap, working_memories, caches, result, trace,
                   entities, uuids, ecalls>>

\* lines 58-63: plan = await create_search_plan(...)
CreateSearchPlan ==
    /\ pc = "plan"
    /\ \E response \in CuratorResponses :
          locals' = [locals EXCEPT !.plan = create_search_plan(locals.canonical_user_id,
                                                               env.curator_model, response)]
    /\ trace' = [trace EXCEPT !.curator_calls = @ + CuratorCalls(env.curator_model)]
    /\ pc' = "read"
    /\ UNCHANGED <<args, env, now, heap, working_memories, caches, result,
                   entities, uuids, ecalls>>

\* lines 65-81: the plan's fields are read
ReadPlan ==
    /\ pc = "read"
    /\ ReadError(locals.plan) = "none"
    /\ locals' = [locals EXCEPT !.limit_per_tier = PlanLimit(locals.plan),
                                !.filters = EnforceUserId(locals.plan, locals.canonical_user_id),
                                !.search_query = SearchQuery(args.query,
                                     EnforceUserId(locals.plan, locals.canonical_user_id)),
                                !.tiers = PlanTiers(locals.plan),
                                !.idx = 1]
    /\ pc' = "loop"
    /\ UNCHANGED <<args, env, now, heap, working_memories, caches, result, trace,
                   entities, uuids, ecalls>>

\* lines 65-81 raise: the exception leaves resolve
ReadPlanRaises ==
    /\ pc = "read"
    /\ ReadError(locals.plan) # "none"
    /\ locals' = [locals EXCEPT !.error = ReadError(locals.plan), !.error_at = "plan"]
    /\ pc' = "raised"
    /\ UNCHANGED <<args, env, now, heap, working_memories, caches, result, trace,
                   entities, uuids, ecalls>>

InLoop == pc = "loop" /\ ~locals.stopped /\ locals.idx <= Len(locals.tiers)

\* lines 82-87: MemoryType(tier_name.lower()) raises ValueError, the entry is skipped
SkipInvalidTier ==
    /\ InLoop
    /\ locals.tiers[locals.idx].str
    /\ Lower(locals.tiers[locals.idx].v) \notin MemoryType
    /\ trace' = [trace EXCEPT !.dropped = Append(@, locals.idx)]
    /\ locals' = [locals EXCEPT !.idx = @ + 1]
    /\ UNCHANGED <<pc, args, env, now, heap, working_memories, caches, result,
                   entities, uuids, ecalls>>

\* line 84 on an entry that is no string: AttributeError, which is not caught
TierNameRaises ==
    /\ InLoop
    /\ ~locals.tiers[locals.idx].str
    /\ locals' = [locals EXCEPT !.error = "AttributeError", !.error_at = "tier_name"]
    /\ pc' = "raised"
    /\ UNCHANGED <<args, env, now, heap, working_memories, caches, result, trace,
                   entities, uuids, ecalls>>

\* lines 89-109 for a valid tier
FetchTier ==
    /\ InLoop
    /\ locals.tiers[locals.idx].str
    /\ Lower(locals.tiers[locals.idx].v) \in MemoryType
    /\ \E fail \in BOOLEAN, mem_type \in {Lower(locals.tiers[locals.idx].v)} :
          \E o \in { TierPass(mem_type, locals, result, args,
                              [given |-> TRUE, refs |-> working_memories], env, fail,
                              caches, heap, now) } :
              /\ heap' = o.heap
              /\ caches' = o.caches
              /\ result' = o.result
              /\ trace' = [trace EXCEPT
                              !.fetched = Append(@, [tier |-> mem_type,
                                                     total |-> o.result.total_count]),
                              !.searches = @ \o o.calls]
              /\ pc' = IF o.raised THEN "raised" ELSE "loop"
              /\ locals' = [locals EXCEPT !.idx = IF o.raised THEN @ ELSE @ + 1,
                                          !.stopped = o.stop,
                                          !.error = IF o.raised THEN "TypeError" ELSE @,
                                          !.error_at = IF o.raised THEN o.at ELSE @]
    /\ UNCHANGED <<args, env, now, working_memories, entities, uuids, ecalls>>

\* lines 111-112: the result is returned
Return ==
    /\ pc = "loop"
    /\ locals.stopped \/ locals.idx > Len(locals.tiers)
    /\ pc' = "done"
    /\ UNCHANGED <<args, env, now, heap, working_memories, caches, locals, result,
                   trace, entities, uuids, ecalls>>

Next ==
    \/ ResolveEntity
    \/ SkipEntity
    \/ CreateSearchPlan
    \/ ReadPlan
    \/ ReadPlanRaises
    \/ SkipInvalidTier
    \/ TierNameRaises
    \/ FetchTier
    \/ Return

Spec == Init /\ [][Next]_vars

(***************************************************************************)
(* SpecRepeated: resolve calls one after the other on the same resolver,   *)
(* with the same working memories, no curator model and no entity          *)
(* resolution.  The heap and the caches of the resolver live on between    *)
(* the calls.                                                              *)
(***************************************************************************)
\* resolve calls made on the resolver
MaxResolves == 2

\* hours between the return of a call and the next call
Elapsed == {1, 25}

\* a returned MemorySearchResult as the caller saw it at the return: its lists,
\* and the importance each Memory object had
Snapshot(res, h) ==
    [memories |-> res.memories, present |-> res.present, total_count |-> res.total_count,
     importance |-> [r \in 1..Len(h) |-> h[r].importance]]

InitRepeated ==
    /\ pc = "start"
    /\ now = StartTime
    /\ args = [query |-> Query, user_id |-> "alice", agent_id |-> "code_writer",
               resolve_entity |-> FALSE]
    /\ \E m \in Mem0Envs :
          env = [mem0_client |-> m.mem0_client, mem0_store |-> m.mem0_store,
                 entity_resolver |-> FALSE, curator_model |-> FALSE,
                 entity_store |-> "up"]
    /\ entities = <<>>
    /\ heap \in WorkingSets
    /\ working_memories = NewRefs(0, Len(heap))
    /\ caches = NoCaches
    /\ locals = NoLocals
    /\ result = EmptyResult
    /\ trace = NoTrace
    /\ uuids = 0
    /\ ecalls = [p \in 1..NumCalls |-> IdleCall]

\* the caller keeps the returned result and, some hours later, calls resolve again
\* with the same arguments: line 45 makes a new MemorySearchResult, the Memory
\* objects and the caches stay
ResolveAgain ==
    /\ pc = "done"
    /\ Len(trace.returned) + 1 < MaxResolves
    /\ \E dt \in Elapsed : now' = now + dt
    /\ trace' = [trace EXCEPT !.returned = Append(@, Snapshot(result, heap))]
    /\ result' = EmptyResult
    /\ locals' = NoLocals
    /\ pc' = "start"
    /\ UNCHANGED <<args, env, heap, working_memories, caches, entities, uuids, ecalls>>

NextRepeated ==
    \/ SkipEntity
    \/ CreateSearchPlan
    \/ ReadPlan
    \/ FetchTier
    \/ Return
    \/ ResolveAgain

SpecRepeated == InitRepeated /\ [][NextRepeated]_vars

(***************************************************************************)
(* SpecSeeds: any number of resolve calls on one resolver, for changing    *)
(* agent ids and whatever plan the curator gives, with direct calls of     *)
(* get_collective_memories and get_lineage_memories in between.  The       *)
(* durable store is not configured and no working memories are passed, so  *)
(* the heap holds the seeded Memory objects only.                          *)
(***************************************************************************)
\* agent ids of the calls: two with a seed definition, one without, and none
SeedCallers == {"code_writer", "code_reviewer", "intern", None}

\* content and importance of the Memory objects of a list, and their agent ids
Contents(h, refs) ==
    [i \in 1..Len(refs) |-> [content |-> h[refs[i]].content,
                             importance |-> h[refs[i]].importance,
                             agent_id |-> h[refs[i]].agent_id]]

InitSeeds ==
    /\ pc = "start"
    /\ now = StartTime
    /\ \E agent_id \in SeedCallers :
          args = [query |-> Query, user_id |-> "alice", agent_id |-> agent_id,
                  resolve_entity |-> FALSE]
    /\ env = [mem0_client |-> FALSE, mem0_store |-> Mem0Store, entity_resolver |-> FALSE,
              curator_model |-> TRUE, entity_store |-> "up"]
    /\ entities = <<>>
    /\ heap = <<>>
    /\ working_memories = <<>>
    /\ caches = NoCaches
    /\ locals = NoLocals
    /\ result = EmptyResult
    /\ trace = NoTrace
    /\ uuids = 0
    /\ ecalls = [p \in 1..NumCalls |-> IdleCall]

\* resolve has returned or raised; it is called again on the same resolver, for
\* any agent id
ResolveNext ==
    /\ pc \in {"done", "raised"}
    /\ \E agent_id \in SeedCallers : args' = [args EXCEPT !.agent_id = agent_id]
    /\ trace' = NoTrace
    /\ result' = EmptyResult
    /\ locals' = NoLocals
    /\ pc' = "start"
    /\ UNCHANGED <<env, now, heap, working_memories, caches, entities, uuids, ecalls>>

\* a direct call of get_collective_memories() between two resolve calls
GetCollective ==
    /\ pc \in {"done", "raised"}
    /\ \E made \in { get_collective_memories(now) } :
          trace' = [trace EXCEPT !.direct =
                       [kind |-> "collective", agent_id |-> None,
                        list |-> Contents(made, NewRefs(0, Len(made)))]]
    /\ UNCHANGED <<pc, args, env, now, heap, working_memories, caches, locals, result,
                   entities, uuids, ecalls>>

\* a direct call of get_lineage_memories(agent_id) between two resolve calls
GetLineage ==
    /\ pc \in {"done", "raised"}
    /\ \E agent_id \in SeedCallers \ {None} :
          \E made \in { get_lineage_memories(agent_id, now) } :
              trace' = [trace EXCEPT !.direct =
                           [kind |-> "lineage", agent_id |-> agent_id,
                            list |-> Contents(made, NewRefs(0, Len(made)))]]
    /\ UNCHANGED <<pc, args, env, now, heap, working_memories, caches, locals, result,
                   entities, uuids, ecalls>>

NextSeeds ==
    \/ SkipEntity
    \/ CreateSearchPlan
    \/ ReadPlan
    \/ ReadPlanRaises
    \/ SkipInvalidTier
    \/ TierNameRaises
    \/ FetchTier
    \/ Return
    \/ ResolveNext
    \/ GetCollective
    \/ GetLineage

SpecSeeds == InitSeeds /\ [][NextSeeds]_vars

(***************************************************************************)
(* SpecEntity: NumCalls concurrent calls of EntityResolver.resolve on one  *)
(* table that stays reachable.  Every await of resolve is a point where    *)
(* another call may run, so each call to the table is one step.            *)
(***************************************************************************)
Handles == {"bob", " bob ", "carol"}

Callers == 1..NumCalls

InitEntityWith(store) ==
    /\ pc = "off"
    /\ now = StartTime
    /\ args = [query |-> Query, user_id |-> None, agent_id |-> None, resolve_entity |-> FALSE]
    /\ env = [mem0_client |-> FALSE, mem0_store |-> Mem0Store, entity_resolver |-> TRUE,
              curator_model |-> FALSE, entity_store |-> store]
    /\ heap = <<>>
    /\ working_memories = <<>>
    /\ caches = NoCaches
    /\ locals = NoLocals
    /\ result = EmptyResult
    /\ trace = NoTrace
    /\ entities \in EntityTables
    /\ uuids = 0
    /\ ecalls = [p \in Callers |-> IdleCall]

InitEntity == InitEntityWith("up")

resolverVars == <<pc, args, env, now, heap, working_memories, caches, locals, result, trace>>

\* the call begins: raw_handle = raw_handle.strip()
CallResolve(p) ==
    /\ ecalls[p].pc = "idle"
    /\ \E raw_handle \in Handles : ecalls' = [ecalls EXCEPT ![p] = NewCall(raw_handle)]
    /\ UNCHANGED <<resolverVars, entities, uuids>>

\* the statement the call is at runs: its call to the table, and what follows it
\* up to the next call to the table or the return
Statement(p) ==
    /\ \E fail \in FailureChoices(env.entity_store) :
          \E c \in { CallStep(ecalls[p], entities, fail, Uuids[uuids + 1]) } :
              /\ ecalls' = [ecalls EXCEPT ![p] = c]
              /\ entities' = RowsStep(ecalls[p], entities, fail)
              /\ uuids' = IF c.ret.type = "Unresolved" THEN uuids + 1 ELSE uuids
    /\ UNCHANGED resolverVars

\* lines 32-42
CanonicalLookup(p) ==
    /\ ecalls[p].pc = "canonical"
    /\ Statement(p)

\* lines 44-55
AliasLookup(p) ==
    /\ ecalls[p].pc = "alias"
    /\ Statement(p)

\* lines 57-75
OptimisticInsert(p) ==
    /\ ecalls[p].pc = "insert"
    /\ Statement(p)

\* lines 76-92
RetryLookup(p) ==
    /\ ecalls[p].pc = "refetch"
    /\ Statement(p)

NextEntity ==
    \E p \in Callers :
        \/ CallResolve(p)
        \/ CanonicalLookup(p)
        \/ AliasLookup(p)
        \/ OptimisticInsert(p)
        \/ RetryLookup(p)

SpecEntity == InitEntity /\ [][NextEntity]_vars

(***************************************************************************)
(* SpecEntityFlaky: the same calls on a table that may be unreachable at   *)
(* any of its calls.                                                       *)
(***************************************************************************)
InitEntityFlaky == InitEntityWith("flaky")

SpecEntityFlaky == InitEntityFlaky /\ [][NextEntity]_vars

(***************************************************************************)
(* SpecBatch: apply_decay_to_memories and filter_expired_memories called   *)
(* on lists of Memory objects, the filter on a list as given or on the     *)
(* list apply_decay_to_memories returned, and apply_decay_to_memories      *)
(* applied again to the list it returned.                                  *)
(***************************************************************************)
\* longest list passed
MaxLen == 3

\* the Memory objects the lists are made of, by tier, stored importance and age
\* in hours at time t
MemoryPool(t) ==
    << Memory("p-01", "working", 1000, t, None, None, None),
       Memory("p-02", "working", 800, t - 25, None, None, None),
       Memory("p-03", "working", 800, t - 24, None, None, None),
       Memory("p-04", "episodic", 900, t - 24, None, None, None),
       Memory("p-05", "episodic", 300, t - 960, None, None, None),
       Memory("p-06", "episodic", 900, t, None, None, None),
       Memory("p-07", "semantic", 800, t - 2400, None, None, None),
       Memory("p-08", "semantic", 100, t - 1, None, None, None),
       Memory("p-09", "lineage", 900, t - 50, None, None, None),
       Memory("p-10", "collective", 1000, t - 50, None, None, None),
       Memory("p-11", "semantic", 50, t, None, None, None) >>

\* every list of at most MaxLen references to the objects of the pool; an object
\* may be in a list more than once
MemoryLists(n) ==
    UNION { [1..k -> 1..n] : k \in 0..MaxLen }

\* the min_importance argument: left out, or given
MinImportanceArgs ==
    { [given |-> FALSE, val |-> 0], [given |-> TRUE, val |-> 100], [given |-> TRUE, val |-> 500] }

MinImportance(arg) == IF arg.given THEN arg.val ELSE DEFAULT_MIN_IMPORTANCE

\* apply_decay_to_memories has not been applied a second time
NotDecayed == [list |-> <<>>, importance |-> <<>>]

InitBatch ==
    /\ pc = "batch"
    /\ now = StartTime
    /\ heap = MemoryPool(StartTime)
    /\ working_memories \in MemoryLists(Len(MemoryPool(StartTime)))
    /\ \E arg \in MinImportanceArgs :
          args = [min_importance |-> arg, memories |-> MemoryPool(StartTime)]
    /\ locals = [input |-> <<>>, out |-> <<>>, decayed |-> FALSE, once |-> NotDecayed]
    /\ env = [mem0_client |-> FALSE, mem0_store |-> Mem0Store, entity_resolver |-> FALSE,
              curator_model |-> FALSE, entity_store |-> "up"]
    /\ caches = NoCaches
    /\ result = EmptyResult
    /\ trace = NoTrace
    /\ entities = <<>>
    /\ uuids = 0
    /\ ecalls = [p \in Callers |-> IdleCall]

\* out = apply_decay_to_memories(memories)
ApplyDecay ==
    /\ pc = "batch"
    /\ \E o \in { apply_decay_to_memories(heap, working_memories, now) } :
          /\ heap' = o.heap
          /\ locals' = [locals EXCEPT !.input = working_memories, !.out = o.list,
                                      !.decayed = TRUE]
    /\ pc' = "decayed"
    /\ UNCHANGED <<args, env, now, working_memories, caches, result, trace,
                   entities, uuids, ecalls>>

\* out = apply_decay_to_memories(out), at the same current time: the function is
\* applied to the list its first application returned; once keeps that list and
\* the importances the objects had then
ApplyDecayAgain ==
    /\ pc = "decayed"
    /\ \E o \in { apply_decay_to_memories(heap, locals.out, now) } :
          /\ heap' = o.heap
          /\ locals' = [locals EXCEPT
                            !.input = locals.out,
                            !.out = o.list,
                            !.once = [list |-> locals.out,
                                      importance |-> [r \in 1..Len(heap) |->
                                                         heap[r].importance]]]
    /\ pc' = "decayed_twice"
    /\ UNCHANGED <<args, env, now, working_memories, caches, result, trace,
                   entities, uuids, ecalls>>

\* out = filter_expired_memories(memories, min_importance), on the list as given
\* or on what apply_decay_to_memories returned
FilterExpired ==
    /\ pc \in {"batch", "decayed"}
    /\ \E input \in { IF pc = "decayed" THEN locals.out ELSE working_memories } :
          locals' = [locals EXCEPT
                        !.input = input,
                        !.out = filter_expired_memories(heap, input,
                                                        MinImportance(args.min_importance))]
    /\ pc' = "filtered"
    /\ UNCHANGED <<args, env, now, heap, working_memories, caches, result, trace,
                   entities, uuids, ecalls>>

NextBatch ==
    \/ ApplyDecay
    \/ ApplyDecayAgain
    \/ FilterExpired

SpecBatch == InitBatch /\ [][NextBatch]_vars

(***************************************************************************)
(* SpecImportance: calculate_importance called on one Memory at a series   *)
(* of instants.  locals.observed lists the calls: the instant, the age of  *)
(* the memory then, and the value returned.                                *)
(***************************************************************************)
\* stored importances, and the created_at of the memory and the instants of the
\* calls in hours from StartTime (created_at after the first call is clock skew)
StoredImportances == {0, 300, 900, 1000}

CreatedOffsets == {5, 0, -23}

CallOffsets == {0, 1, 2, 24, 720, 3600}

InitImportance ==
    /\ pc = "importance"
    /\ now = StartTime
    /\ \E t \in MemoryType, imp \in StoredImportances, c \in CreatedOffsets :
          heap = << Memory("m", t, imp, StartTime + c, None, None, None) >>
    /\ working_memories = <<1>>
    /\ args = [query |-> Query, user_id |-> None, agent_id |-> None, resolve_entity |-> FALSE]
    /\ locals = [observed |-> <<>>]
    /\ env = [mem0_client |-> FALSE, mem0_store |-> Mem0Store, entity_resolver |-> FALSE,
              curator_model |-> FALSE, entity_store |-> "up"]
    /\ caches = NoCaches
    /\ result = EmptyResult
    /\ trace = NoTrace
    /\ entities = <<>>
    /\ uuids = 0
    /\ ecalls = [p \in Callers |-> IdleCall]

\* calculate_importance(memory, current_time) is called now
CallImportance ==
    /\ pc = "importance"
    /\ \A k \in 1..Len(locals.observed) : locals.observed[k].at # now
    /\ locals' = [locals EXCEPT !.observed =
                     Append(@, [at |-> now, age |-> now - heap[1].created_at,
                                value |-> calculate_importance(heap[1], now)])]
    /\ UNCHANGED <<pc, args, env, now, heap, working_memories, caches, result, trace,
                   entities, uuids, ecalls>>

\* time passes up to a later instant
Advance ==
    /\ pc = "importance"
    /\ \E d \in CallOffsets : StartTime + d > now /\ now' = StartTime + d
    /\ UNCHANGED <<pc, args, env, heap, working_memories, caches, locals, result, trace,
                   entities, uuids, ecalls>>

NextImportance ==
    \/ CallImportance
    \/ Advance

SpecImportance == InitImportance /\ [][NextImportance]_vars

(***************************************************************************)
(* SpecCurator: create_search_plan on its own, for every caller id,        *)
(* configuration and curator response.  args holds the inputs, locals.plan *)
(* the plan returned, trace.curator_calls the calls of the curator model.  *)
(***************************************************************************)
InitCurator ==
    /\ pc = "curator"
    /\ now = StartTime
    /\ \E user_id \in {"alice", "ent-1", None}, response \in CuratorResponses :
          args = [query |-> Query, user_id |-> user_id, agent_id |-> "code_writer",
                  resolve_entity |-> FALSE, response |-> response]
    /\ \E configured \in BOOLEAN :
          env = [mem0_client |-> FALSE, mem0_store |-> Mem0Store, entity_resolver |-> FALSE,
                 curator_model |-> configured, entity_store |-> "up"]
    /\ heap = <<>>
    /\ working_memories = <<>>
    /\ caches = NoCaches
    /\ locals = NoLocals
    /\ result = EmptyResult
    /\ trace = NoTrace
    /\ entities = <<>>
    /\ uuids = 0
    /\ ecalls = [p \in Callers |-> IdleCall]

CallCurator ==
    /\ pc = "curator"
    /\ locals' = [locals EXCEPT !.canonical_user_id = args.user_id,
                                !.plan = create_search_plan(args.user_id, env.curator_model,
                                                            args.response)]
    /\ trace' = [trace EXCEPT !.curator_calls = @ + CuratorCalls(env.curator_model)]
    /\ pc' = "curator_done"
    /\ UNCHANGED <<args, env, now, heap, working_memories, caches, result,
                   entities, uuids, ecalls>>

NextCurator == CallCurator

SpecCurator == InitCurator /\ [][NextCurator]_vars

(***************************************************************************)
(* SpecPromotion: one check_and_promote(content, user_id) call against a   *)
(* store whose delete and add calls may fail.  env.mem0_store is the list  *)
(* of the stored records; a record's score is its similarity to content.   *)
(* locals holds the matches, the position in the delete loop, the return   *)
(* value and the number of store calls that failed.                        *)
(***************************************************************************)
SIMILARITY_THRESHOLD == 850

PROMOTION_COUNT == 3

\* limit=5 of the similarity search
PromotionSearchLimit == 5

Stored(id, user_id, score) ==
    [id |-> id, user_id |-> user_id, memory |-> id, score |-> score, type |-> "episodic",
     source |-> "chat"]

\* the stores the call is made against, each in the order a search returns it
PromotionStores ==
    { <<>>,
      << Stored("e-1", "alice", 950), Stored("e-2", "alice", 900),
         Stored("e-3", "alice", 400) >>,
      << Stored("e-1", "alice", 950), Stored("e-2", "alice", 900),
         Stored("e-3", "alice", 860), Stored("e-4", "alice", 850) >>,
      << Stored("e-1", "alice", 950), Stored("v-1", "victim", 990),
         Stored("e-2", "alice", 900), Stored("v-2", "victim", 990),
         Stored("v-3", "victim", 990), Stored("e-3", "alice", 300) >>,
      << Stored("e-1", "alice", 990), Stored("e-2", "alice", 980),
         Stored("e-3", "alice", 970), Stored("e-4", "alice", 960),
         Stored("e-5", "alice", 950), Stored("e-6", "alice", 940) >> }

\* mem0_client.search(query=content, user_id=user_id, limit=5)
SearchSimilar(store, user_id) ==
    SliceTo(SelectSeq(store, LAMBDA r : r.user_id = user_id), PromotionSearchLimit)

\* matches = [m for m in similar if m.get("score", 0) > SIMILARITY_THRESHOLD]
HighSimilarity(similar) == SelectSeq(similar, LAMBDA m : m.score > SIMILARITY_THRESHOLD)

\* mem0_client.delete(id)
DeleteStored(store, id) == SelectSeq(store, LAMBDA r : r.id # id)

\* mem0_client.add(messages, user_id, metadata={"type": "semantic", ...})
AddSemantic(store, content, user_id) ==
    Append(store, [id |-> "s-1", user_id |-> user_id, memory |-> content, score |-> 1000,
                   type |-> "semantic", source |-> "promotion"])

NoPromotion == [matches |-> <<>>, idx |-> 0, ret |-> FALSE, fails |-> 0]

InitPromotion ==
    /\ pc = "check"
    /\ now = StartTime
    /\ \E store \in PromotionStores, client \in BOOLEAN, shape \in {"list", "dict"} :
          /\ env = [mem0_client |-> client, mem0_store |-> store, entity_resolver |-> FALSE,
                    curator_model |-> FALSE, entity_store |-> "up"]
          /\ args = [content |-> "likes tea", user_id |-> "alice", stored_before |-> store,
                     search_returns |-> shape]
    /\ locals = NoPromotion
    /\ heap = <<>>
    /\ working_memories = <<>>
    /\ caches = NoCaches
    /\ result = EmptyResult
    /\ trace = NoTrace
    /\ entities = <<>>
    /\ uuids = 0
    /\ ecalls = [p \in Callers |-> IdleCall]

promotionVars == <<args, now, heap, working_memories, caches, result, trace, entities,
                   uuids, ecalls>>

\* check_and_promote lines 26-27: no client, nothing is done
NoClient ==
    /\ pc = "check"
    /\ ~env.mem0_client
    /\ pc' = "returned"
    /\ UNCHANGED <<env, locals>>
    /\ UNCHANGED promotionVars

\* check_and_promote lines 29-48 up to the call of _promote_to_semantic: the
\* search and the count of the matches.  A search that raises, and a response
\* that is a dict and not a list of hits (m.get raises on its keys), end in the
\* except branch and the call returns False.
SearchAndCount ==
    /\ pc = "check"
    /\ env.mem0_client
    /\ \E fail \in BOOLEAN :
          \E matches \in { HighSimilarity(SearchSimilar(env.mem0_store, args.user_id)) } :
              IF fail \/ args.search_returns = "dict"
              THEN /\ locals' = [locals EXCEPT !.fails = IF fail THEN 1 ELSE 0]
                   /\ pc' = "returned"
              ELSE IF Len(matches) >= PROMOTION_COUNT
              THEN /\ locals' = [locals EXCEPT !.matches = matches, !.idx = 1]
                   /\ pc' = "delete"
              ELSE /\ locals' = locals
                   /\ pc' = "returned"
    /\ UNCHANGED env
    /\ UNCHANGED promotionVars

\* _promote_to_semantic lines 56-60: one pass of the delete loop; a delete that
\* raises is logged and the loop goes on
DeleteDuplicate ==
    /\ pc = "delete"
    /\ locals.idx <= Len(locals.matches)
    /\ \E fail \in BOOLEAN :
          /\ env' = [env EXCEPT !.mem0_store =
                        IF fail THEN @ ELSE DeleteStored(@, locals.matches[locals.idx].id)]
          /\ locals' = [locals EXCEPT !.idx = @ + 1,
                                      !.fails = IF fail THEN @ + 1 ELSE @]
    /\ pc' = "delete"
    /\ UNCHANGED promotionVars

\* _promote_to_semantic lines 62-75 and check_and_promote line 43: the add, which
\* is logged when it raises, and return True
StoreSemantic ==
    /\ pc = "delete"
    /\ locals.idx > Len(locals.matches)
    /\ \E fail \in BOOLEAN :
          /\ env' = [env EXCEPT !.mem0_store =
                        IF fail THEN @ ELSE AddSemantic(@, args.content, args.user_id)]
          /\ locals' = [locals EXCEPT !.ret = TRUE,
                                      !.fails = IF fail THEN @ + 1 ELSE @]
    /\ pc' = "returned"
    /\ UNCHANGED promotionVars

NextPromotion ==
    \/ NoClient
    \/ SearchAndCount
    \/ DeleteDuplicate
    \/ StoreSemantic

SpecPromotion == InitPromotion /\ [][NextPromotion]_vars

(***************************************************************************)
(* Claims                                                                  *)
(***************************************************************************)
\* whether resolve goes through entity resolution (line 48)
EntityAsked == args.resolve_entity /\ Truthy(args.user_id) /\ env.entity_resolver

\* the plan's own proposal for filters.user_id, None when it makes none
ProposedUserId ==
    IF locals.plan.kind = "dict" /\ locals.plan.filters.tag = "dict"
    THEN locals.plan.filters.user_id ELSE None

\* C1: every search call made to the durable-store adapter carries the user id the
\* resolver derived from the authenticated caller (user_id, or the id of the
\* entity it resolved to when resolve_entity is set), whatever user id the plan
\* proposes in its filters.
C1_SearchesCarryCallerId ==
    \A i \in 1..Len(trace.searches) :
        /\ trace.searches[i].user_id =
              (IF EntityAsked THEN locals.entity.ret.id ELSE args.user_id)
        /\ trace.searches[i].user_id # "victim"

\* C1 witness: a plan proposing another user's id has been followed to the end
\* and the store was searched
C1_Witness ==
    /\ pc = "done"
    /\ ProposedUserId = "victim"
    /\ Len(trace.searches) > 0
    /\ trace.searches[1].user_id = "alice"
    /\ trace.searches[1].results # <<>>

\* position of a tier in MEMORY_RESOLUTION_ORDER
OrderIndex(tier) == CHOOSE i \in 1..Len(MEMORY_RESOLUTION_ORDER) : MEMORY_RESOLUTION_ORDER[i] = tier

\* C2: resolve fetches the plan's tiers in ResolutionOrder (WORKING, EPISODIC,
\* SEMANTIC, LINEAGE, COLLECTIVE) whatever order the plan lists them in: a tier is
\* never fetched after a tier that comes later in ResolutionOrder.
C2_FetchedInResolutionOrder ==
    \A i, j \in 1..Len(trace.fetched) :
        i < j => OrderIndex(trace.fetched[i].tier) <= OrderIndex(trace.fetched[j].tier)

\* C2 scenario reached: the plan lists collective before working and both were
\* fetched
C2_PlanOrderFollowed ==
    /\ pc = "done"
    /\ Len(trace.fetched) = 2
    /\ trace.fetched[1].tier = "collective"
    /\ trace.fetched[2].tier = "working"

\* C3: under every interleaving of concurrent EntityResolver.resolve calls the
\* entities table never holds two rows with the same canonical_name, and a call
\* whose insert conflicted returns, through its one retry fetch, the id of the
\* row another call with the same handle created.
C3_NoDuplicateEntityUnderRace ==
    /\ \A i, j \in 1..Len(entities) :
          entities[i].canonical_name = entities[j].canonical_name => i = j
    /\ \A p \in Callers :
          (ecalls[p].pc = "done" /\ ecalls[p].conflict) =>
              /\ ecalls[p].refetches = 1
              /\ \E q \in Callers \ {p} :
                    /\ ecalls[q].inserted
                    /\ ecalls[q].handle = ecalls[p].handle
                    /\ ecalls[q].ret.id = ecalls[p].ret.id
                    /\ \E i \in 1..Len(entities) : entities[i] = ecalls[p].ret

\* C3 witness: a call lost the race (its insert conflicted) and has returned
C3_Witness ==
    \E p \in Callers :
        /\ ecalls[p].pc = "done"
        /\ ecalls[p].conflict
        /\ ecalls[p].ret.canonical_name = "bob"
        /\ Len(SelectByCanonicalName(entities, "bob")) = 1

\* the EPISODIC search of the end-to-end example: the store returned the three
\* hits (0.9, 0.8, 0.3; 1, 10 and 40 days old) and limit_per_tier is 2
C4_Scenario ==
    /\ pc = "done"
    /\ locals.limit_per_tier = IntVal(2)
    /\ \E i \in 1..Len(trace.searches) :
          /\ trace.searches[i].mem_type = "episodic"
          /\ ~trace.searches[i].raised
          /\ trace.searches[i].results = Mem0Store["alice"]

\* raw importance times the decay for the record's age
EffectiveImportance(hit) == (hit.score * calculate_decay_factor(hit.age_days * 24)) \div One

\* C4: in the end-to-end example the EPISODIC list of the result is the 0.9-hit
\* followed by the 0.8-hit, each with its decayed effective importance, and the
\* 0.3-hit is absent.
C4_EpisodicDecayedTopTwo ==
    C4_Scenario =>
        LET episodic == result.memories["episodic"]
            hits == Mem0Store["alice"]
        IN  /\ Len(episodic) = 2
            /\ \A k \in 1..2 :
                  /\ heap[episodic[k]].mem0_id = hits[k].id
                  /\ heap[episodic[k]].importance = EffectiveImportance(hits[k])

\* C5: with resolve_entity set and every call to the entities table failing, the
\* canonical user id used for the plan and for every search is the raw user_id.
C5_IdentityWhenStoreUnreachable ==
    (/\ EntityAsked
     /\ locals.entity.pc = "done"
     /\ locals.entity.ops > 0
     /\ locals.entity.fails = locals.entity.ops) =>
        /\ locals.canonical_user_id = args.user_id
        /\ \A i \in 1..Len(trace.searches) : trace.searches[i].user_id = args.user_id

\* C6: a failure while fetching or processing one tier never leaves resolve: the
\* tier contributes nothing and resolve goes on to return a result.
C6_TierFailureContained ==
    /\ ~(pc = "raised" /\ locals.error_at = "source")
    /\ \A i \in 1..Len(trace.searches) :
          (pc = "done" /\ trace.searches[i].raised /\ Len(trace.searches) = 1) =>
              result.memories[trace.searches[i].mem_type] = <<>>

\* the fixed fallback plan
FixedFallback(user_id) ==
    [tiers |-> [tag |-> "list",
                val |-> [i \in 1..Len(MEMORY_RESOLUTION_ORDER) |->
                            [str |-> TRUE, v |-> MEMORY_RESOLUTION_ORDER[i]]]],
     filters |-> [tag |-> "dict", user_id |-> user_id, keywords |-> <<>>],
     limit_per_tier |-> [tag |-> "int", val |-> 5],
     early_stop |-> [tag |-> "bool", val |-> FALSE]]

IsFixedFallback(plan, user_id) ==
    /\ plan.kind = "dict"
    /\ \A f \in DOMAIN FixedFallback(user_id) : plan[f] = FixedFallback(user_id)[f]

\* a parsed curator answer that is no object, lacks a SearchPlan field or has one
\* of the wrong type
MalformedPlan(plan) ==
    \/ plan.kind # "dict"
    \/ plan.tiers.tag # "list"
    \/ \E i \in 1..Len(plan.tiers.val) : ~plan.tiers.val[i].str
    \/ plan.filters.tag # "dict"
    \/ plan.limit_per_tier.tag # "int"
    \/ plan.early_stop.tag # "bool"

\* the curator's answer as create_search_plan parsed it
AnsweredPlans ==
    IF locals.plan.kind = "unset" THEN {} ELSE {locals.plan}

\* C7: when the curator's answer lacks or malforms a SearchPlan field, resolve
\* does not raise and traverses with the fallback plan (five tiers in
\* ResolutionOrder, limit 5, no early stop, filters.user_id the caller).
C7_MalformedPlanFallsBack ==
    \A plan \in AnsweredPlans :
        (MalformedPlan(plan) /\ pc \in {"loop", "done", "raised"}) =>
            /\ pc # "raised"
            /\ locals.tiers = FixedFallback(locals.canonical_user_id).tiers.val
            /\ locals.limit_per_tier = FixedFallback(locals.canonical_user_id).limit_per_tier
            /\ locals.filters.user_id = locals.canonical_user_id
            /\ ~locals.stopped

\* whether the one curator call gave nothing that parses: with the json fence
\* taken off, the text is not one JSON value
Unparsable(text) ==
    ~ \E p \in CuratorPlans \cup {_get_fallback_plan("victim")} :
          text \in { <<Json(p)>>, <<FenceJson, Json(p), Fence>> }

\* C8: when no curator is configured, the curator call raises or its output does
\* not parse, create_search_plan returns the fixed fallback plan; and the curator
\* is called at most once per plan request.
C8_FallbackPlanOnCuratorFailure ==
    /\ trace.curator_calls <= 1
    /\ (/\ pc = "curator_done"
        /\ ~env.curator_model \/ args.response.raised \/ Unparsable(args.response.text)) =>
            /\ IsFixedFallback(locals.plan, args.user_id)
            /\ ~env.curator_model => trace.curator_calls = 0

\* C8 witness: the curator was called once, answered text that does not parse,
\* and the plan returned is the fallback
C8_Witness ==
    /\ pc = "curator_done"
    /\ env.curator_model
    /\ ~args.response.raised
    /\ args.response.text = <<NotJson>>
    /\ trace.curator_calls = 1
    /\ locals.plan.limit_per_tier.val = 5
    /\ locals.plan.filters.user_id = "alice"

\* an entry of tiers that is one of the five tier names (in any letter case)
ValidEntry(entry) == entry.str /\ Lower(entry.v) \in MemoryType

\* the tier names of the valid entries of a tiers list, in its order
ValidTiers(tiers) ==
    LET valid == SelectSeq(tiers, ValidEntry)
    IN  [i \in 1..Len(valid) |-> Lower(valid[i].v)]

FetchedTiers == [i \in 1..Len(trace.fetched) |-> trace.fetched[i].tier]

\* C9: resolve drops exactly the entries of tiers that are none of the five tier
\* names and fetches every valid tier; such an entry never makes resolve raise.
C9_UnknownTiersDropped ==
    /\ ~(pc = "raised" /\ locals.error_at = "tier_name")
    /\ (pc = "done" /\ ~locals.stopped) =>
          /\ FetchedTiers = ValidTiers(locals.tiers)
          /\ \A i \in 1..Len(locals.tiers) :
                ValidEntry(locals.tiers[i])
                    <=> ~ \E k \in 1..Len(trace.dropped) : trace.dropped[k] = i

\* the early-stop condition of the spec after the k-th fetched tier
ThresholdReached(k) ==
    /\ locals.plan.early_stop = [tag |-> "bool", val |-> TRUE]
    /\ trace.fetched[k].total >= 2 * locals.limit_per_tier.val

\* C10: traversal stops right after the first tier at which early_stop is true
\* and total_count >= 2 * limit_per_tier (no later tier is fetched); otherwise
\* every valid tier of the plan is fetched.
C10_EarlyStopAtTwiceLimit ==
    (pc \in {"loop", "done"} /\ locals.limit_per_tier.tag = "int") =>
        /\ \A k \in 1..(Len(trace.fetched) - 1) : ~ThresholdReached(k)
        /\ pc = "done" =>
              /\ FetchedTiers = SubSeq(ValidTiers(locals.tiers), 1, Len(trace.fetched))
              /\ \/ Len(trace.fetched) = Len(ValidTiers(locals.tiers))
                 \/ Len(trace.fetched) > 0 /\ ThresholdReached(Len(trace.fetched))

\* C10 witness: traversal stopped early, below ten memories, with tiers of the
\* plan left unfetched
C10_Witness ==
    /\ pc = "done"
    /\ locals.limit_per_tier.tag = "int"
    /\ Len(trace.fetched) > 0
    /\ Len(trace.fetched) < Len(ValidTiers(locals.tiers))
    /\ ThresholdReached(Len(trace.fetched))
    /\ result.total_count < 10

\* ids of the rows of the entities table
StoredIds == { entities[i].id : i \in 1..Len(entities) }

C12_ReturnedResultUnchanged ==
    \A k \in 1..Len(trace.returned) :
        \A tier \in MemoryType :
            \A i \in 1..Len(trace.returned[k].memories[tier]) :
                LET r == trace.returned[k].memories[tier][i]
                IN  heap[r].importance = trace.returned[k].importance[r]

\* C12 scenario: a second call with the same working memories has returned, after
\* a first call that returned working memories
C12_SecondCallReturned ==
    /\ pc = "done"
    /\ Len(trace.returned) = 1
    /\ trace.returned[1].memories["working"] # <<>>
    /\ now > StartTime + WORKING_MEMORY_TTL_HOURS

\* the list that keeps of seq the entries at the positions in keep, in the order
\* of seq, and nothing else
KeptInOrder(seq, keep, out) ==
    /\ Len(out) = Cardinality(keep)
    /\ \A j \in 1..Len(out) :
          \E i \in keep : /\ Cardinality({ k \in keep : k < i }) = j - 1
                          /\ out[j] = seq[i]

\* the threshold a call of filter_expired_memories was made with: 0.1 when the
\* argument was left out
ThresholdOf(arg) == IF arg.given THEN arg.val ELSE 100

\* C13 as stated: filter_expired_memories(list, t) returns exactly the memories of
\* list whose effective importance (importance after time decay for their tier and
\* age) is >= t, in their original relative order, t defaulting to 0.1.
C13_FilterByEffectiveImportance ==
    pc = "filtered" =>
        KeptInOrder(locals.input,
                    { i \in 1..Len(locals.input) :
                        calculate_importance(heap[locals.input[i]], now)
                            >= ThresholdOf(args.min_importance) },
                    locals.out)

\* C13 amended: filter_expired_memories(list, t) returns exactly the memories of
\* list whose importance attribute, as it stands at the call, is >= t, in their
\* original relative order, t defaulting to 0.1; it applies no decay itself.
C13_FilterByStoredImportance ==
    pc = "filtered" =>
        KeptInOrder(locals.input,
                    { i \in 1..Len(locals.input) :
                        heap[locals.input[i]].importance >= ThresholdOf(args.min_importance) },
                    locals.out)

\* C13 witness: the filter was called with the default threshold on a list holding
\* a memory exactly at 0.1 and one below it, and kept some and dropped some
C13_Witness ==
    /\ pc = "filtered"
    /\ ~args.min_importance.given
    /\ \E i, j \in 1..Len(locals.input) :
          /\ heap[locals.input[i]].importance = 100
          /\ heap[locals.input[j]].importance < 100
    /\ Len(locals.out) > 0
    /\ Len(locals.out) < Len(locals.input)

\* how often the object r is in the list
Occurrences(seq, r) == Cardinality({ i \in 1..Len(seq) : seq[i] = r })

\* the ways out can be read as a rearrangement of seq: out[j] is the entry seq had
\* at position f[j], each position used once
Rearrangements(seq, out) ==
    { f \in [1..Len(out) -> 1..Len(seq)] :
        /\ \A i, j \in 1..Len(out) : f[i] = f[j] => i = j
        /\ \A j \in 1..Len(out) : out[j] = seq[f[j]] }

\* C14: apply_decay_to_memories returns the same memories, each carrying its
\* effective importance, in non-increasing order of it, and two memories of equal
\* effective importance keep the relative order they had in the input list.
C14_DecaySortedStable ==
    pc = "decayed" =>
        /\ Len(locals.out) = Len(locals.input)
        /\ \A r \in 1..Len(heap) :
              Occurrences(locals.input, r) = 1 =>
                  heap[r].importance = calculate_importance(args.memories[r], now)
        /\ \A i, j \in 1..Len(locals.out) :
              i < j => heap[locals.out[i]].importance >= heap[locals.out[j]].importance
        /\ \E f \in Rearrangements(locals.input, locals.out) :
              \A i, j \in 1..Len(locals.out) :
                  (i < j /\ heap[locals.out[i]].importance = heap[locals.out[j]].importance)
                      => f[i] < f[j]

\* C14 witness: a list of three different memories was reordered, two of them
\* equal in effective importance, and an expired one went last
C14_Witness ==
    /\ pc = "decayed"
    /\ locals.input = <<2, 7, 3>>
    /\ locals.out = <<7, 3, 2>>
    /\ heap[2].importance = 0

\* C15: for an EPISODIC memory of fixed stored importance, the effective
\* importance is non-increasing in age, and never below 0.01 times the stored
\* importance.
C15_EpisodicMonotoneWithFloor ==
    heap[1].memory_type = "episodic" =>
        /\ \A i, j \in 1..Len(locals.observed) :
              locals.observed[i].age <= locals.observed[j].age
                  => locals.observed[j].value <= locals.observed[i].value
        /\ \A i \in 1..Len(locals.observed) :
              /\ locals.observed[i].value * 100 >= heap[1].importance
              /\ locals.observed[i].value <= heap[1].importance

\* C15 witness: an episodic memory was scored at age 0, at 30 days and at 150
\* days, where the floor holds it at one hundredth
C15_Witness ==
    /\ heap[1].memory_type = "episodic"
    /\ heap[1].importance = 1000
    /\ \E i, j, k \in 1..Len(locals.observed) :
          /\ locals.observed[i].age = 0 /\ locals.observed[i].value = 1000
          /\ locals.observed[j].age = 720 /\ locals.observed[j].value < 1000
          /\ locals.observed[k].age = 3600 /\ locals.observed[k].value = 10

\* C16: an EPISODIC memory whose age equals the half-life (30 days) has effective
\* importance 50% of its stored importance (to the thousandth).
C16_HalfAtHalfLife ==
    heap[1].memory_type = "episodic" =>
        \A i \in 1..Len(locals.observed) :
            locals.observed[i].age = 24 * 30 =>
                /\ 2 * locals.observed[i].value <= heap[1].importance + 2
                /\ 2 * locals.observed[i].value >= heap[1].importance - 2

\* C16 scenario: an episodic memory of stored importance 1.0 was scored at the age
\* of 30 days
C16_ScoredAtHalfLife ==
    /\ heap[1].memory_type = "episodic"
    /\ heap[1].importance = 1000
    /\ \E i \in 1..Len(locals.observed) : locals.observed[i].age = 24 * 30

\* C17: for a WORKING memory calculate_importance returns exactly 0.0 when its age
\* is greater than the 24-hour TTL and the stored importance when its age is at
\* most the TTL (the TTL itself included).
C17_WorkingCliff ==
    heap[1].memory_type = "working" =>
        \A i \in 1..Len(locals.observed) :
            locals.observed[i].value =
                (IF locals.observed[i].age > 24 THEN 0 ELSE heap[1].importance)

\* C17 witness: a working memory was scored at 23, 24 and 25 hours of age, and
\* kept its importance up to the cliff
C17_Witness ==
    /\ heap[1].memory_type = "working"
    /\ heap[1].importance = 900
    /\ \E i, j, k \in 1..Len(locals.observed) :
          /\ locals.observed[i].age = 23 /\ locals.observed[i].value = 900
          /\ locals.observed[j].age = 24 /\ locals.observed[j].value = 900
          /\ locals.observed[k].age = 25 /\ locals.observed[k].value = 0

\* C18: for an EPISODIC memory of age zero or less (created_at at or after now)
\* calculate_importance returns exactly the stored importance.
C18_NoDecayAtOrBeforeCreation ==
    heap[1].memory_type = "episodic" =>
        \A i \in 1..Len(locals.observed) :
            locals.observed[i].age <= 0 => locals.observed[i].value = heap[1].importance

\* C18 witness: an episodic memory created after now was scored before its
\* creation time and after it
C18_Witness ==
    /\ heap[1].memory_type = "episodic"
    /\ heap[1].importance = 900
    /\ \E i, j \in 1..Len(locals.observed) :
          /\ locals.observed[i].age < 0 /\ locals.observed[i].value = 900
          /\ locals.observed[j].age > 0 /\ locals.observed[j].value < 900

\* C19: for the tiers configured with decays = false (SEMANTIC, LINEAGE,
\* COLLECTIVE) calculate_importance returns the stored importance, for every now
\* and created_at.
C19_NoDecayTiersUnchanged ==
    heap[1].memory_type \in {"semantic", "lineage", "collective"} =>
        /\ ~MEMORY_CONFIGS[heap[1].memory_type].decays
        /\ \A i \in 1..Len(locals.observed) : locals.observed[i].value = heap[1].importance

\* C19 witness: a lineage memory was scored before its creation time and some 150
\* days after it
C19_Witness ==
    /\ heap[1].memory_type = "lineage"
    /\ heap[1].importance = 900
    /\ \E i, j \in 1..Len(locals.observed) :
          /\ locals.observed[i].age > 3000 /\ locals.observed[i].value = 900
          /\ locals.observed[j].age < 0

\* C20: no Memory is constructed with an importance outside [0,1]: a store score
\* above 1 or below 0 raises INVALID_MEMORY at construction instead of being
\* accepted or clamped, so every Memory in a resolve result has importance within
\* [0,1].
C20_ImportanceWithinUnitInterval ==
    /\ \A r \in 1..Len(heap) : heap[r].importance >= 0 /\ heap[r].importance <= 1000
    /\ \A i \in 1..Len(trace.searches) :
          (\E k \in 1..Len(trace.searches[i].results) :
                \/ trace.searches[i].results[k].score > 1000
                \/ trace.searches[i].results[k].score < 0)
              => pc = "raised" /\ locals.error = "INVALID_MEMORY"

\* C20 scenario: resolve returned after the store answered a search with a hit
\* scored above 1.0, and the tier searched has memories in the result
C20_ScoreAboveOneReturned ==
    /\ pc = "done"
    /\ \E i \in 1..Len(trace.searches) :
          /\ trace.searches[i].results # <<>>
          /\ trace.searches[i].results[1].score > 1000
          /\ result.memories[trace.searches[i].mem_type] # <<>>


\* the seeded collective memories as every call has to see them: the entries of
\* the seed definitions in their order, each with importance 1.0
SeededCollective ==
    [i \in 1..Len(COLLECTIVE_MEMORIES) |->
        [content |-> COLLECTIVE_MEMORIES[i], importance |-> 1000, agent_id |-> None]]

\* the COLLECTIVE list of the result being built or returned, as far as the
\* plan's limit lets it reach
ReturnedCollective == Contents(heap, result.memories["collective"])

SeededLineage(agent_id) ==
    IF agent_id \in LINEAGE_AGENTS
    THEN [i \in 1..Len(LINEAGE_MEMORIES[agent_id]) |->
             [content |-> LINEAGE_MEMORIES[agent_id][i], importance |-> 900,
              agent_id |-> agent_id]]
    ELSE <<>>

ReturnedLineage == Contents(heap, result.memories["lineage"])

\* C22: the LINEAGE list of a resolve call for agent id A and the list of
\* get_lineage_memories(A) hold memories seeded for A only, whatever agent ids
\* the earlier calls on the resolver were for; an agent id without a seed
\* definition, or no agent id, yields no LINEAGE memories.
C22_LineageOfCallerOnly ==
    /\ \A i \in 1..Len(ReturnedLineage) :
          /\ ReturnedLineage[i].agent_id = args.agent_id
          /\ \E j \in 1..Len(SeededLineage(args.agent_id)) :
                ReturnedLineage[i] = SeededLineage(args.agent_id)[j]
    /\ args.agent_id \notin LINEAGE_AGENTS =>
          /\ ReturnedLineage = <<>>
          /\ "lineage" \notin result.present
    /\ trace.direct.kind = "lineage" =>
          trace.direct.list = SeededLineage(trace.direct.agent_id)
    /\ \A a \in DOMAIN caches.lineage :
          Contents(heap, caches.lineage[a]) = SeededLineage(a)

\* a resolve call for code_reviewer returned LINEAGE memories after a call for
\* code_writer and one for the agent id without seeds on the same resolver
C22_Witness ==
    /\ pc = "done"
    /\ args.agent_id = "code_reviewer"
    /\ Len(ReturnedLineage) = 2
    /\ {"code_writer", "intern"} \subseteq DOMAIN caches.lineage


\* the index set of a list of heap references
Listed(refs) == { refs[i] : i \in 1..Len(refs) }

\* C23: the WORKING list of a result holds the limit_per_tier highest of ALL the
\* working memories the caller passed that survive decay and filtering: a
\* survivor is left out only when the list is full and every listed memory has
\* at least its effective importance.
C23_TopOfAllCandidates ==
    (pc = "done" /\ "working" \in result.present /\ locals.limit_per_tier.tag = "int") =>
        \A i \in 1..Len(working_memories) :
            LET w == working_memories[i]
                effective == calculate_importance(heap[w], now)
                listed == result.memories["working"]
            IN  (effective >= DEFAULT_MIN_IMPORTANCE /\ w \notin Listed(listed)) =>
                    /\ Len(listed) = locals.limit_per_tier.val
                    /\ \A j \in 1..Len(listed) : heap[listed[j]].importance >= effective

\* a resolve returned a WORKING list for a caller who passed more working
\* memories than limit_per_tier
C23_Witness ==
    /\ pc = "done"
    /\ "working" \in result.present
    /\ locals.limit_per_tier.tag = "int"
    /\ Len(working_memories) > locals.limit_per_tier.val


\* C24: in every result of a plan with limit_per_tier = L, each tier's list
\* holds at most L memories, every memory in it has importance of at least 0.1,
\* and the list is in non-increasing order of importance.
C24_ListsBoundedFilteredSorted ==
    locals.limit_per_tier.tag = "int" =>
        \A tier \in result.present :
            LET listed == result.memories[tier]
            IN  /\ Len(listed) <= locals.limit_per_tier.val
                /\ \A i \in 1..Len(listed) :
                      heap[listed[i]].importance >= DEFAULT_MIN_IMPORTANCE
                /\ \A i \in 1..Len(listed) : \A j \in i..Len(listed) :
                      heap[listed[i]].importance >= heap[listed[j]].importance

\* a result was returned in which a tier's source supplied more than L
\* candidates, one of them below 0.1, and the tier's list is full
C24_Witness ==
    /\ pc = "done"
    /\ locals.limit_per_tier.tag = "int"
    /\ locals.limit_per_tier.val = 2
    /\ {"episodic", "working", "collective"} \subseteq result.present
    /\ Len(result.memories["episodic"]) = 2
    /\ \E r \in 1..Len(heap) : heap[r].importance < DEFAULT_MIN_IMPORTANCE


\* the number of memories a result holds, summed over its tiers
MemoriesHeld(res) ==
    Len(res.memories["working"]) + Len(res.memories["episodic"])
        + Len(res.memories["semantic"]) + Len(res.memories["lineage"])
        + Len(res.memories["collective"])

\* C25: total_count of a result equals the number of memories in
\* result.memories summed over the tiers, for every plan, also one that lists
\* the same tier more than once.
C25_TotalCountIsSum ==
    pc = "done" => result.total_count = MemoriesHeld(result)

\* a resolve whose plan lists a tier twice returned memories of that tier
C25_Witness ==
    /\ pc = "done"
    /\ \E i, j \in 1..Len(locals.tiers) :
          /\ i < j
          /\ locals.tiers[i] = locals.tiers[j]
          /\ locals.tiers[i].str
          /\ Lower(locals.tiers[i].v) \in result.present


\* C26: all EntityResolver.resolve calls with the same trimmed handle return the
\* same entity id, whatever the outcome of the individual store operations.
C26_SameHandleSameId ==
    \A p, q \in Callers :
        (/\ ecalls[p].pc = "done"
         /\ ecalls[q].pc = "done"
         /\ ecalls[p].handle = ecalls[q].handle) =>
            ecalls[p].ret.id = ecalls[q].ret.id

\* two calls with the same trimmed handle have returned, and store operations
\* of one of them failed
C26_Witness ==
    \E p, q \in Callers :
        /\ p # q
        /\ ecalls[p].pc = "done"
        /\ ecalls[q].pc = "done"
        /\ ecalls[p].handle = ecalls[q].handle
        /\ ecalls[p].fails > 0


\* the store ids of the records a list of the result was built from
StoreIds(refs) == { heap[refs[i]].mem0_id : i \in 1..Len(refs) }

\* C27: within one result no record of the durable store (same store id) is
\* listed under more than one tier.
C27_NoRecordUnderTwoTiers ==
    pc = "done" =>
        StoreIds(result.memories["episodic"]) \cap StoreIds(result.memories["semantic"]) = {}

\* a resolve returned a result with both an EPISODIC and a SEMANTIC list
C27_Witness ==
    /\ pc = "done"
    /\ {"episodic", "semantic"} \subseteq result.present


\* C28: resolve does not modify the working memories the caller passes in: when
\* it has returned, each of them has the importance and the fields it was
\* passed with, expired or not.
C28_WorkingMemoriesUntouched ==
    pc = "done" =>
        \E passed \in WorkingSets :
            /\ Len(passed) = Len(working_memories)
            /\ \A i \in 1..Len(working_memories) : heap[working_memories[i]] = passed[i]

\* a resolve whose plan lists WORKING returned for a caller who passed working
\* memories, one of them expired
C28_Witness ==
    /\ pc = "done"
    /\ \E i \in 1..Len(trace.fetched) : trace.fetched[i].tier = "working"
    /\ \E i \in 1..Len(working_memories) :
          now - heap[working_memories[i]].created_at > WORKING_MEMORY_TTL_HOURS


\* C29: apply_decay_to_memories is idempotent for a fixed current time: applied
\* to the list it returned, it returns the same list in the same order and
\* every memory keeps the importance the first application gave it, for every
\* tier and age.
C29_DecayIdempotent ==
    pc = "decayed_twice" =>
        /\ locals.out = locals.once.list
        /\ \A r \in 1..Len(heap) : heap[r].importance = locals.once.importance[r]

\* apply_decay_to_memories was applied twice to a list holding an EPISODIC
\* memory older than its creation instant
C29_Witness ==
    /\ pc = "decayed_twice"
    /\ \E i \in 1..Len(locals.out) :
          /\ heap[locals.out[i]].memory_type = "episodic"
          /\ now > heap[locals.out[i]].created_at


\* the records of a store, as a set
Records(store) == { store[i] : i \in 1..Len(store) }

\* C30: whenever check_and_promote returns True (at least three stored memories
\* match the content with a score above 0.85), the store afterwards holds
\* exactly one new semantic record and none of the matched originals, even if
\* individual store calls fail; whenever it returns False the store is as it was.
C30_PromotionAllOrNothing ==
    pc = "returned" =>
        IF locals.ret
        THEN /\ Len(locals.matches) >= PROMOTION_COUNT
             /\ \E new \in Records(env.mem0_store) :
                   /\ new.type = "semantic"
                   /\ Records(env.mem0_store) \ Records(args.stored_before) = {new}
             /\ Records(env.mem0_store) \cap Records(locals.matches) = {}
        ELSE env.mem0_store = args.stored_before

\* check_and_promote returned True although a delete or the add failed
C30_Witness ==
    /\ pc = "returned"
    /\ locals.ret
    /\ locals.fails > 0

====
